---- MODULE Spec2Model ----
(***************************************************************************)
(* Model of the Obsidian "AI Content Formatter" plugin (main.ts).          *)
(*                                                                         *)
(* Text is a sequence of characters; a character is a one-element string,  *)
(* or a code-point token such as "U+4E2D" for a character outside ASCII.   *)
(* Indices are 1-based here where the TypeScript ones are 0-based.         *)
(***************************************************************************)
EXTENDS Integers, Sequences, FiniteSets, TLC

VARIABLES
  settings,          \* FormatCleanerPlugin.settings
  compiledPatterns,  \* FormatCleanerPlugin.compiledPatterns (no field = undefined)
  phase,             \* "constructed" | "loaded" (onload has run) | "pure"
  ui,                \* the settings tab: what display()/createSettingRow built
  pending,           \* saveSettings calls awaiting saveData, with their continuations
  nOps,              \* number of settings handlers run so far
  last               \* the last call: its arguments and its outcome

vars == <<settings, compiledPatterns, phase, ui, pending, nOps, last>>

-----------------------------------------------------------------------------
(* Strings                                                                 *)

Chars(str) == [i \in 1..Len(str) |-> SubSeq(str, i, i)]

Repeat(c, n) == [i \in 1..n |-> c]

SeqsUpTo(S, n) == UNION { [1..k -> S] : k \in 0..n }

Min(S) == CHOOSE x \in S : \A y \in S : x <= y

Max(S) == CHOOSE x \in S : \A y \in S : x >= y

\* ECMAScript WhiteSpace and LineTerminator code points (String.prototype.trim, \s)
WhiteSpace == {" ", "\t", "\n", "\r", "\f", "U+00A0", "U+3000", "U+FEFF", "U+2028", "U+2029"}

\* [a-zA-Z0-9]
LatinOrDigit ==
  { "a","b","c","d","e","f","g","h","i","j","k","l","m","n","o","p","q","r","s","t","u","v","w","x","y","z",
    "A","B","C","D","E","F","G","H","I","J","K","L","M","N","O","P","Q","R","S","T","U","V","W","X","Y","Z",
    "0","1","2","3","4","5","6","7","8","9" }

\* [一-龥], by representatives: the two ends of the range and two inside it
CJK == {"U+4E00", "U+4E2D", "U+6587", "U+9FA5"}

\* the full-width marks of the WeChat rule: ， 。 ！ ？ ； ： 、
ChinesePunctuation == {"U+FF0C", "U+3002", "U+FF01", "U+FF1F", "U+FF1B", "U+FF1A", "U+3001"}

\* the bullet the list markers are unified to
Bullet == "U+2022"

\* String.prototype.trim
trim(s) ==
  LET keep == { i \in 1..Len(s) : s[i] \notin WhiteSpace }
  IN  IF keep = {} THEN <<>> ELSE SubSeq(s, Min(keep), Max(keep))

\* String.prototype.split with a one-character separator
RECURSIVE split(_, _)
split(s, sep) ==
  LET hits == { i \in 1..Len(s) : s[i] = sep }
  IN  IF hits = {} THEN <<s>>
      ELSE <<SubSeq(s, 1, Min(hits) - 1)>> \o split(SubSeq(s, Min(hits) + 1, Len(s)), sep)

\* Array.prototype.join
RECURSIVE join(_, _)
join(parts, sep) ==
  IF Len(parts) = 0 THEN <<>>
  ELSE IF Len(parts) = 1 THEN parts[1]
  ELSE parts[1] \o sep \o join(Tail(parts), sep)

\* Array.prototype.filter(para => para.length > 0)
RECURSIVE filterNonEmpty(_)
filterNonEmpty(parts) ==
  IF Len(parts) = 0 THEN <<>>
  ELSE (IF Len(Head(parts)) > 0 THEN <<Head(parts)>> ELSE <<>>) \o filterNonEmpty(Tail(parts))

\* length of the maximal run of characters of class C that starts at index i
RunLength(s, i, C) ==
  LET stops == { j \in i..Len(s) : s[j] \notin C }
  IN  IF i > Len(s) THEN 0
      ELSE IF stops = {} THEN Len(s) - i + 1
      ELSE Min(stops) - i

-----------------------------------------------------------------------------
(* Regular expressions built from rule text                                *)

\* the characters of the class in escapeRegExp: . * + ? ^ $ { } ( ) | [ ] \
MetaChars == {".", "*", "+", "?", "^", "$", "{", "}", "(", ")", "|", "[", "]", "\\"}

\* a bug to compare with: the class of escapeRegExp without the dot
RECURSIVE escapeRegExpNoDot(_)
escapeRegExpNoDot(string) ==
  IF Len(string) = 0 THEN <<>>
  ELSE IF Len(string) = 1
       THEN (IF string[1] \in (MetaChars \ {"."}) THEN <<"\\", string[1]>> ELSE string)
  ELSE escapeRegExpNoDot(SubSeq(string, 1, Len(string) \div 2))
       \o escapeRegExpNoDot(SubSeq(string, Len(string) \div 2 + 1, Len(string)))

\* string.replace(/[.*+?^${}()|[\]\\]/g, '\\$&'): every character of the
\* class gets a backslash in front (computed half by half)
RECURSIVE escapeRegExp(_)
escapeRegExp(string) ==
  IF Len(string) = 0 THEN <<>>
  ELSE IF Len(string) = 1
       THEN (IF string[1] \in MetaChars THEN <<"\\", string[1]>> ELSE string)
  ELSE escapeRegExp(SubSeq(string, 1, Len(string) \div 2))
       \o escapeRegExp(SubSeq(string, Len(string) \div 2 + 1, Len(string)))

\* is the character at index i of a pattern source escaped: an odd number
\* of backslashes stands right before it
Escaped(source, i) ==
  LET others == { j \in 1..(i - 1) : source[j] # "\\" }
      run    == (i - 1) - (IF others = {} THEN 0 ELSE Max(others))
  IN  run % 2 = 1

\* The atoms of a pattern source, left to right: "\c" is the character c, an
\* unescaped "." is any character but a line terminator, another character
\* is itself.  (Quantifiers, groups and classes never reach the matcher
\* unescaped: every pattern the plugin compiles went through escapeRegExp.)
Atoms(source) ==
  LET IsAtom(i) == source[i] # "\\" \/ Escaped(source, i) \/ i = Len(source)
      at        == SelectSeq([i \in 1..Len(source) |-> i], IsAtom)
  IN  [ k \in 1..Len(at) |->
          [ any |-> source[at[k]] = "." /\ ~Escaped(source, at[k]),
            ch  |-> source[at[k]] ] ]

\* new RegExp(source, 'g')
RegExp(source) == [source |-> source, flags |-> "g"]

LineTerminators == {"\n", "\r", "U+2028", "U+2029"}

\* do the atoms match s at index i
MatchAt(atoms, s, i) ==
  /\ i + Len(atoms) - 1 <= Len(s)
  /\ \A k \in 1..Len(atoms) :
        IF atoms[k].any THEN s[i + k - 1] \notin LineTerminators
        ELSE s[i + k - 1] = atoms[k].ch

\* the start indices of the successive matches of a global regex, searching
\* from index start; after an empty match the search resumes one further on
RECURSIVE MatchPositions(_, _, _)
MatchPositions(atoms, s, start) ==
  LET From(cands) ==
        IF cands = {} THEN <<>>
        ELSE <<Min(cands)>> \o
             MatchPositions(atoms, s,
                            IF Len(atoms) = 0 THEN Min(cands) + 1 ELSE Min(cands) + Len(atoms))
  IN  From({ i \in start..(Len(s) + 1) : MatchAt(atoms, s, i) })

\* String.prototype.match with a global regex: the matches (<<>> stands for null)
match(s, regex) == MatchPositions(Atoms(regex.source), s, 1)

\* a bug to compare with: the replacement text taken literally
GetSubstitutionLiteral(matched, str, position, replacement) == replacement

\* GetSubstitution of ECMAScript for a regex without capture groups:
\* $$ is "$", $& the match, $` the text before it, $' the text after it
RECURSIVE GetSubstitution(_, _, _, _)
GetSubstitution(matched, str, position, replacement) ==
  IF Len(replacement) = 0 THEN <<>>
  ELSE IF Head(replacement) = "$" /\ Len(replacement) >= 2
          /\ replacement[2] \in {"$", "&", "`", "'"}
       THEN (CASE replacement[2] = "$" -> <<"$">>
               [] replacement[2] = "&" -> matched
               [] replacement[2] = "`" -> SubSeq(str, 1, position - 1)
               [] replacement[2] = "'" -> SubSeq(str, position + Len(matched), Len(str)))
            \o GetSubstitution(matched, str, position, SubSeq(replacement, 3, Len(replacement)))
  ELSE <<Head(replacement)>> \o GetSubstitution(matched, str, position, Tail(replacement))

\* the text from index cursor on, with the matches pos[k], pos[k+1], ... (each
\* m characters long) replaced by the expansion of the replacement string
RECURSIVE replaceMatches(_, _, _, _, _, _)
replaceMatches(s, m, pos, to, k, cursor) ==
  IF k > Len(pos) THEN SubSeq(s, cursor, Len(s))
  ELSE SubSeq(s, cursor, pos[k] - 1)
       \o GetSubstitution(SubSeq(s, pos[k], pos[k] + m - 1), s, pos[k], to)
       \o replaceMatches(s, m, pos, to, k + 1, pos[k] + m)

\* String.prototype.replace with a global regex and a replacement string
replace(s, regex, to) ==
  replaceMatches(s, Len(Atoms(regex.source)), match(s, regex), to, 1, 1)

\* does new RegExp(source) accept the source: escapes are complete, groups
\* balance, a quantifier has something to repeat, a class is closed.
\* prev is "none", "atom" or "quant": what stands before index i.  A run of
\* characters without syntactic role is skipped in one step.
SyntaxChars == {"\\", "(", ")", "|", "*", "+", "?", "["}

RECURSIVE SyntaxOK(_, _, _, _)
SyntaxOK(source, i, depth, prev) ==
  IF i > Len(source) THEN depth = 0
  ELSE LET c == source[i]
           closes == { j \in (i + 1)..Len(source) :
                         source[j] = "]" /\ source[j - 1] # "\\" }
           next   == { j \in (i + 1)..Len(source) : source[j] \in SyntaxChars }
       IN  CASE c = "\\" -> i < Len(source) /\ SyntaxOK(source, i + 2, depth, "atom")
             [] c = "("  -> SyntaxOK(source, i + 1, depth + 1, "none")
             [] c = ")"  -> depth > 0 /\ SyntaxOK(source, i + 1, depth - 1, "atom")
             [] c = "|"  -> SyntaxOK(source, i + 1, depth, "none")
             [] c \in {"*", "+"} -> prev = "atom" /\ SyntaxOK(source, i + 1, depth, "quant")
             [] c = "?"  -> prev # "none"
                            /\ SyntaxOK(source, i + 1, depth,
                                        IF prev = "atom" THEN "quant" ELSE "none")
             [] c = "["  -> closes # {} /\ SyntaxOK(source, Min(closes) + 1, depth, "atom")
             [] OTHER    -> SyntaxOK(source, IF next = {} THEN Len(source) + 1 ELSE Min(next),
                                     depth, "atom")

\* new RegExp(pattern) does not throw
RegExpCompiles(pattern) == SyntaxOK(pattern, 1, 0, "none")

\* String.prototype.includes
includes(s, sub) ==
  \E i \in 1..(Len(s) - Len(sub) + 1) : SubSeq(s, i, i + Len(sub) - 1) = sub

\* the limits of isValidRegex: pattern length and number of '('
MaxPatternLength == 1000

MaxGroupCount == 50

\* isValidRegex(pattern)
isValidRegex(pattern) ==
  IF ~RegExpCompiles(pattern) THEN FALSE
  ELSE IF Len(pattern) > MaxPatternLength THEN FALSE
  ELSE IF Cardinality({ i \in 1..Len(pattern) : pattern[i] = "(" }) > MaxGroupCount THEN FALSE
  ELSE IF includes(pattern, <<"(", ".", "*", ")">>) \/ includes(pattern, <<"(", ".", "+", ")">>)
       THEN FALSE
  ELSE TRUE

\* validateAndApplyRegex(text, pattern, replacement, stats): the text it
\* returns, stats.replacements after it and the Notice it shows.  Its catch
\* block (failedToApplyPattern) guards new RegExp and match/replace on a
\* source isValidRegex has just compiled.
validateAndApplyRegex(text, pattern, replacement, replacements) ==
  IF ~isValidRegex(escapeRegExp(pattern))
  THEN [result |-> text, replacements |-> replacements, notice |-> "invalidPattern"]
  ELSE IF ~RegExpCompiles(escapeRegExp(pattern))
  THEN [result |-> text, replacements |-> replacements, notice |-> "failedToApplyPattern"]
  ELSE LET regex   == RegExp(escapeRegExp(pattern))
           matches == match(text, regex)
       IN  [ result       |-> replace(text, regex, replacement),
             replacements |-> replacements + Len(matches),
             notice       |-> "none" ]

-----------------------------------------------------------------------------
(* Settings                                                                *)

Rule(from, to) == [from |-> Chars(from), to |-> Chars(to)]

DEFAULT_SETTINGS ==
  [ removeMarkdown     |-> TRUE,
    unifyListMarker    |-> TRUE,
    autoFormatHeadings |-> TRUE,
    customReplacements |-> << Rule("**", ""), Rule("*", ""), Rule("_", "") >>,
    defaultAISource    |-> "none",
    wechatReady        |-> FALSE,
    language           |-> "zh",
    aiPatterns         |->
      [ chatgpt |-> << Rule("Sure, here's an example:", ""), Rule("Of course!", ""),
                       Rule("Here you go:", "") >>,
        claude  |-> << Rule("Here's", ""), Rule("Certainly!", ""),
                       Rule("I'd be happy to help.", "") >> ] ]

\* Object.assign({}, DEFAULT_SETTINGS, data): a shallow merge, a field of data
\* replaces the whole default field
ObjectAssign(defaults, data) ==
  [ k \in (DOMAIN defaults) \cup (DOMAIN data) |->
      IF k \in DOMAIN data THEN data[k] ELSE defaults[k] ]

\* rules.map(({from, to}) => ({regex: new RegExp(this.escapeRegExp(from), 'g'), to}))
CompileRules(rules) ==
  [ i \in 1..Len(rules) |-> [regex |-> RegExp(escapeRegExp(rules[i].from)), to |-> rules[i].to] ]

\* compilePatterns throws a TypeError (and assigns nothing) when a rule list
\* it maps over is missing
compilePatternsThrows(S) ==
  \/ "chatgpt" \notin DOMAIN S.aiPatterns
  \/ "claude" \notin DOMAIN S.aiPatterns

\* the value compilePatterns assigns to this.compiledPatterns
compilePatterns(S) ==
  [ chatgpt |-> CompileRules(S.aiPatterns.chatgpt),
    claude  |-> CompileRules(S.aiPatterns.claude),
    custom  |-> CompileRules(S.customReplacements) ]

\* this.compiledPatterns before the first successful compilePatterns
Undefined == [ k \in {} |-> <<>> ]

-----------------------------------------------------------------------------
(* cleanFormat                                                             *)

\* a bug to compare with: one replacement counted per matching rule
ApplyPatternCountOne(acc, pat) ==
  LET Counted(matches) ==
        IF Len(matches) > 0
        THEN [ cleaned      |-> replace(acc.cleaned, pat.regex, pat.to),
               replacements |-> acc.replacements + 1 ]
        ELSE acc
  IN  Counted(match(acc.cleaned, pat.regex))

\* the body of the forEach over compiled patterns; acc is the paragraph as
\* it stands and the running stats.replacements
ApplyPattern(acc, pat) ==
  LET Counted(matches) ==
        IF Len(matches) > 0
        THEN [ cleaned      |-> replace(acc.cleaned, pat.regex, pat.to),
               replacements |-> acc.replacements + Len(matches) ]
        ELSE acc
  IN  Counted(match(acc.cleaned, pat.regex))

\* patterns.forEach(...)
RECURSIVE forEachPattern(_, _)
forEachPattern(patterns, acc) ==
  IF Len(patterns) = 0 THEN acc
  ELSE forEachPattern(Tail(patterns), ApplyPattern(acc, Head(patterns)))

\* cleaned.replace(/^[-*]\s+/, '• ')
replaceListMarker(cleaned) ==
  IF Len(cleaned) >= 2 /\ cleaned[1] \in {"-", "*"} /\ cleaned[2] \in WhiteSpace
  THEN <<Bullet, " ">> \o SubSeq(cleaned, 2 + RunLength(cleaned, 2, WhiteSpace), Len(cleaned))
  ELSE cleaned

\* the largest run of '#' the heading pattern takes: #{1,6}
MaxHeadingLevel == 6

\* a bug to compare with: the heading pattern without its \s*
normalizeHeadingKeepSpaces(cleaned) ==
  LET h == Min({RunLength(cleaned, 1, {"#"}), MaxHeadingLevel})
  IN  IF h >= 1
      THEN Repeat("#", h) \o <<" ">> \o SubSeq(cleaned, h + 1, Len(cleaned))
      ELSE cleaned

\* cleaned.replace(/^(#{1,6})\s*/, '$1 ')
normalizeHeading(cleaned) ==
  LET h == Min({RunLength(cleaned, 1, {"#"}), MaxHeadingLevel})
      w == RunLength(cleaned, h + 1, WhiteSpace)
  IN  IF h >= 1
      THEN Repeat("#", h) \o <<" ">> \o SubSeq(cleaned, h + w + 1, Len(cleaned))
      ELSE cleaned

\* s.replace(/\s*([，。！？；：、])\s*/g, '$1'), scanning from index i
RECURSIVE stripAroundPunctuation(_, _)
stripAroundPunctuation(s, i) ==
  IF i > Len(s) THEN <<>>
  ELSE LET j == i + RunLength(s, i, WhiteSpace)
       IN  IF j <= Len(s) /\ s[j] \in ChinesePunctuation
           THEN <<s[j]>> \o stripAroundPunctuation(s, j + 1 + RunLength(s, j + 1, WhiteSpace))
           ELSE <<s[i]>> \o stripAroundPunctuation(s, i + 1)

\* s.replace(/([A])([B])/g, '$1 $2') for two character classes, from index i
RECURSIVE insertSpaceBetween(_, _, _, _)
insertSpaceBetween(s, A, B, i) ==
  IF i > Len(s) THEN <<>>
  ELSE IF i < Len(s) /\ s[i] \in A /\ s[i + 1] \in B
       THEN <<s[i], " ", s[i + 1]>> \o insertSpaceBetween(s, A, B, i + 2)
  ELSE <<s[i]>> \o insertSpaceBetween(s, A, B, i + 1)

\* s.replace(/\n{3,}/g, '\n\n'), scanning from index i
RECURSIVE collapseNewlines(_, _)
collapseNewlines(s, i) ==
  IF i > Len(s) THEN <<>>
  ELSE LET r == RunLength(s, i, {"\n"})
       IN  IF r >= 3 THEN <<"\n", "\n">> \o collapseNewlines(s, i + r)
           ELSE <<s[i]>> \o collapseNewlines(s, i + 1)

\* a bug to compare with: the space inserted after a Latin letter or digit
\* only, not after an ideograph
wechatFormatOneDirection(cleaned) ==
  collapseNewlines(
    insertSpaceBetween(stripAroundPunctuation(cleaned, 1), LatinOrDigit, CJK, 1),
    1)

\* the WeChat block of the paragraph callback
wechatFormat(cleaned) ==
  collapseNewlines(
    insertSpaceBetween(
      insertSpaceBetween(stripAroundPunctuation(cleaned, 1), LatinOrDigit, CJK, 1),
      CJK, LatinOrDigit, 1),
    1)

\* if (defaultAISource !== 'none') compiledPatterns[defaultAISource].forEach(...)
aiBlock(S, CP, acc) ==
  IF S.defaultAISource # "none" THEN forEachPattern(CP[S.defaultAISource], acc) ELSE acc

\* if (removeMarkdown) compiledPatterns.custom.forEach(...)
customBlock(S, CP, acc) ==
  IF S.removeMarkdown THEN forEachPattern(CP.custom, acc) ELSE acc

\* if (unifyListMarker) ...
listBlock(S, acc) ==
  IF S.unifyListMarker THEN [acc EXCEPT !.cleaned = replaceListMarker(@)] ELSE acc

\* if (autoFormatHeadings && cleaned.startsWith('#')) ...
headingBlock(S, acc) ==
  IF S.autoFormatHeadings /\ Len(acc.cleaned) > 0 /\ acc.cleaned[1] = "#"
  THEN [acc EXCEPT !.cleaned = normalizeHeading(@)] ELSE acc

\* if (wechatReady) ...
wechatBlock(S, acc) ==
  IF S.wechatReady THEN [acc EXCEPT !.cleaned = wechatFormat(@)] ELSE acc

\* the two rule blocks of the paragraph callback: the trimmed paragraph
\* through the patterns of the selected AI source, then the custom ones
applyRuleBlocks(para, S, CP, replacements) ==
  customBlock(S, CP, aiBlock(S, CP, [cleaned |-> trim(para), replacements |-> replacements]))

\* a bug to compare with: list markers unified before the rules run
cleanParagraphListFirst(para, S, CP, replacements) ==
  wechatBlock(S, headingBlock(S,
    customBlock(S, CP, aiBlock(S, CP,
      listBlock(S, [cleaned |-> trim(para), replacements |-> replacements])))))

\* the callback of paragraphs.map: one paragraph through the pipeline, with
\* the running stats.replacements
cleanParagraph(para, S, CP, replacements) ==
  wechatBlock(S, headingBlock(S, listBlock(S, applyRuleBlocks(para, S, CP, replacements))))

\* paragraphs.map(...): the cleaned paragraphs and the final stats.replacements
RECURSIVE mapParagraphs(_, _, _, _)
mapParagraphs(paragraphs, S, CP, replacements) ==
  LET Cons(c, rest) ==
        [cleaned |-> <<c.cleaned>> \o rest.cleaned, replacements |-> rest.replacements]
      Then(c) == Cons(c, mapParagraphs(Tail(paragraphs), S, CP, c.replacements))
  IN  IF Len(paragraphs) = 0 THEN [cleaned |-> <<>>, replacements |-> replacements]
      ELSE Then(cleanParagraph(Head(paragraphs), S, CP, replacements))

\* the paragraph count above which the progress notice is shown
LargeDocParagraphs == 500

\* the callback dereferences this.compiledPatterns[source] and
\* this.compiledPatterns.custom: a TypeError when the one it needs is missing
cleanFormatThrows(S, CP) ==
  \/ S.defaultAISource # "none" /\ S.defaultAISource \notin DOMAIN CP
  \/ S.removeMarkdown /\ "custom" \notin DOMAIN CP

\* the filter, the join, the WeChat final pass and the return of cleanFormat
cleanFormatReturn(S, mapped, result, notice) ==
  [ threw        |-> FALSE,
    result       |-> IF S.wechatReady THEN collapseNewlines(trim(result), 1) ELSE result,
    joined       |-> result,
    paragraphs   |-> mapped.cleaned,
    replacements |-> mapped.replacements,
    notice       |-> notice ]

\* cleanFormat(text) under settings S and compiled patterns CP
cleanFormat(text, S, CP) ==
  LET Joined(mapped, notice) ==
        cleanFormatReturn(S, mapped,
                          join(filterNonEmpty(mapped.cleaned), <<"\n", "\n">>), notice)
      Mapped(paragraphs) ==
        Joined(mapParagraphs(paragraphs, S, CP, 0), Len(paragraphs) > LargeDocParagraphs)
  IN  IF cleanFormatThrows(S, CP)
      THEN [threw |-> TRUE, result |-> <<>>, joined |-> <<>>, paragraphs |-> <<>>,
            replacements |-> 0, notice |-> Len(split(text, "\n")) > LargeDocParagraphs]
      ELSE Mapped(split(text, "\n"))

-----------------------------------------------------------------------------
(* Calls and their outcomes                                                *)

NoCall ==
  [ op |-> "none", text |-> <<>>, pattern |-> <<>>, replacement |-> <<>>,
    threw |-> FALSE, result |-> <<>>, joined |-> <<>>, paragraphs |-> <<>>,
    replacements |-> 0, notice |-> "none", stale |-> FALSE, level |-> 0 ]

\* the settings tab before display() has run
NoUI == [ open |-> FALSE,
          rows |-> [chatgpt |-> <<>>, claude |-> <<>>, custom |-> <<>>],
          addButton |-> [chatgpt |-> FALSE, claude |-> FALSE, custom |-> FALSE] ]

\* what the 'clean-format' editorCallback leaves: editor.setValue(cleaned) and
\* a Notice with the count, or the Notice of its catch
cleanOutcome(text, r, stale) ==
  [ NoCall EXCEPT
      !.op = "cleanFormat", !.text = text, !.threw = r.threw,
      !.result = r.result, !.joined = r.joined,
      !.paragraphs = r.paragraphs, !.replacements = r.replacements,
      !.notice = IF r.threw THEN "errorSaveSettings" ELSE "formatCleaned",
      !.stale = stale ]

\* the 'clean-format' editorCallback on an editor holding text
cleanCommand(text) ==
  /\ phase \in {"loaded", "pure"}
  /\ last' = cleanOutcome(text, cleanFormat(text, settings, compiledPatterns),
                          /\ DOMAIN compiledPatterns # {}
                          /\ ~compilePatternsThrows(settings)
                          /\ compiledPatterns # compilePatterns(settings))
  /\ UNCHANGED <<settings, compiledPatterns, phase, ui, pending, nOps>>

-----------------------------------------------------------------------------
(* cleanFormat as a function of the text and the settings                  *)

\* the longest text drawn from TextAlphabet, and the longest tail put after a
\* run of '#' (runs of 1, 6 and 7: a heading, the deepest one, one too deep)
MaxTextLen == 3

MaxTailLen == 2

HashRuns == {1, 6, 7}

TextAlphabet == {" ", "\n", "*", "a", "U+4E2D", "U+FF0C"}

TailAlphabet == {" ", "a"}

ListMarkers == {"-", "*"}

ListTailAlphabet == {" ", "a", "-"}

Texts ==
  SeqsUpTo(TextAlphabet, MaxTextLen)
  \cup { Repeat("#", n) \o t : n \in HashRuns, t \in SeqsUpTo(TailAlphabet, MaxTailLen) }
  \cup { <<m>> \o t : m \in ListMarkers, t \in SeqsUpTo(ListTailAlphabet, MaxTailLen) }

CustomRuleLists ==
  { DEFAULT_SETTINGS.customReplacements, << Rule("", "a") >>, << Rule("a", " ") >> }

CleanSettings ==
  { [ removeMarkdown     |-> rm,
      unifyListMarker    |-> ul,
      autoFormatHeadings |-> ah,
      customReplacements |-> cr,
      defaultAISource    |-> src,
      wechatReady        |-> wc,
      language           |-> "zh",
      aiPatterns         |-> [ chatgpt |-> << Rule("a", "* ") >>,
                               claude  |-> DEFAULT_SETTINGS.aiPatterns.claude ] ] :
      rm \in BOOLEAN, ul \in BOOLEAN, ah \in BOOLEAN, wc \in BOOLEAN,
      src \in {"none", "chatgpt"}, cr \in CustomRuleLists }
  \cup { DEFAULT_SETTINGS }

InitClean ==
  /\ settings \in CleanSettings
  /\ compiledPatterns = compilePatterns(settings)
  /\ phase = "pure"
  /\ ui = NoUI
  /\ pending = <<>>
  /\ nOps = 0
  /\ last = NoCall

\* one call per behaviour: the function is applied to the drawn inputs
NextClean == last.op = "none" /\ \E text \in Texts : cleanCommand(text)

SpecClean == InitClean /\ [][NextClean]_vars

-----------------------------------------------------------------------------
(* Properties of cleanFormat                                               *)

Cleaned == last.op = "cleanFormat" /\ ~last.threw

\* the paragraphs of the text the last call was given
InputParagraphs == split(last.text, "\n")

\* C4: with autoFormatHeadings alone enabled, a paragraph that starts with
\* 1 to 6 '#' comes out as that run, one space and the rest of the text
\* (whatever whitespace followed the run), and a paragraph that starts with
\* 7 or more '#' comes out untouched.
C4_HeadingNormalization ==
  ( /\ Cleaned
    /\ settings.autoFormatHeadings
    /\ ~settings.removeMarkdown /\ ~settings.unifyListMarker /\ ~settings.wechatReady
    /\ settings.defaultAISource = "none"
    /\ Len(InputParagraphs) = 1 )
  => LET p == trim(last.text)
         n == RunLength(p, 1, {"#"})
     IN  /\ n \in 1..6 =>
              last.result = Repeat("#", n) \o <<" ">>
                            \o SubSeq(p, n + 1 + RunLength(p, n + 1, WhiteSpace), Len(p))
         /\ n >= 7 => last.result = p

\* the settings with the replacement rules switched off
RulesDisabled(S) == [S EXCEPT !.removeMarkdown = FALSE, !.defaultAISource = "none"]

\* C5: the result of a clean is left unchanged by a second clean run with
\* removeMarkdown off and defaultAISource none, the other flags kept.
C5_FirstPassIsFixedPoint ==
  Cleaned =>
    cleanFormat(last.result, RulesDisabled(settings), compiledPatterns).result = last.result

\* every paragraph, as the rule blocks of the first pass left it, has no
\* whitespace at either end and no line break inside
RulesLeftTrimmedLines ==
  \A k \in 1..Len(InputParagraphs) :
    LET c == applyRuleBlocks(InputParagraphs[k], settings, compiledPatterns, 0).cleaned
    IN  c = trim(c) /\ \A i \in 1..Len(c) : c[i] # "\n"

\* C5 (amended): the result of a clean is left unchanged by a second clean
\* run with removeMarkdown off and defaultAISource none, provided the rules
\* of the first pass left no paragraph with whitespace at an end or with a
\* line break inside.
C5_FixedPointWhenRulesLeaveTrimmedLines ==
  (Cleaned /\ RulesLeftTrimmedLines) =>
    cleanFormat(last.result, RulesDisabled(settings), compiledPatterns).result = last.result

\* a first pass whose rules replaced something and whose structural steps
\* changed the text, rerun with the rules off
C5_Witness ==
  /\ Cleaned /\ RulesLeftTrimmedLines
  /\ last.replacements > 0
  /\ settings.autoFormatHeadings /\ settings.unifyListMarker /\ settings.wechatReady
  /\ Len(last.result) > 0
  /\ cleanFormat(last.result, RulesDisabled(settings), compiledPatterns).result = last.result
  /\ cleanFormat(last.text, RulesDisabled(settings), compiledPatterns).result # last.result

\* the text a compiled pattern matches: its source with the escapes undone
FromOf(pat) ==
  LET atoms == Atoms(pat.regex.source) IN [ k \in 1..Len(atoms) |-> atoms[k].ch ]

\* the number of non-overlapping occurrences of from in line, counted left
\* to right from index i (the empty string occurs once at every position)
RECURSIVE Occurrences(_, _, _)
Occurrences(from, line, i) ==
  IF i + Len(from) - 1 > Len(line) THEN 0
  ELSE IF SubSeq(line, i, i + Len(from) - 1) = from
       THEN 1 + Occurrences(from, line, i + (IF Len(from) = 0 THEN 1 ELSE Len(from)))
  ELSE Occurrences(from, line, i + 1)

\* the patterns a clean applies to each paragraph, in the order it applies them
AppliedPatterns(S, CP) ==
  (IF S.defaultAISource # "none" THEN CP[S.defaultAISource] ELSE <<>>)
  \o (IF S.removeMarkdown THEN CP.custom ELSE <<>>)

\* occurrences of each pattern's text in the line as it stands when the
\* pattern is reached, summed over the patterns
RECURSIVE OccurrencesInLine(_, _)
OccurrencesInLine(patterns, line) ==
  IF Len(patterns) = 0 THEN 0
  ELSE Occurrences(FromOf(Head(patterns)), line, 1)
       + OccurrencesInLine(Tail(patterns), replace(line, Head(patterns).regex, Head(patterns).to))

RECURSIVE OccurrencesInText(_, _)
OccurrencesInText(patterns, paragraphs) ==
  IF Len(paragraphs) = 0 THEN 0
  ELSE OccurrencesInLine(patterns, trim(Head(paragraphs)))
       + OccurrencesInText(patterns, Tail(paragraphs))

\* C8: stats.replacements of a clean is the sum, over the paragraphs and
\* over the applied rules in order, of the occurrences of the rule's from in
\* the paragraph as it stands when the rule is reached; it is counted from 0
\* in each call and is never negative.
C8_ReplacementsIsSumOfMatches ==
  Cleaned =>
    /\ last.replacements
         = OccurrencesInText(AppliedPatterns(settings, compiledPatterns), InputParagraphs)
    /\ last.replacements >= 0

\* a clean in which two rules counted matches, over more than one paragraph
C8_Witness ==
  /\ Cleaned
  /\ Len(InputParagraphs) >= 2
  /\ Len(AppliedPatterns(settings, compiledPatterns)) >= 2
  /\ last.replacements >= 3
  /\ \E k \in 1..Len(InputParagraphs) :
       OccurrencesInLine(AppliedPatterns(settings, compiledPatterns), trim(InputParagraphs[k])) = 2

\* the rules of a sequence applied in order, each to the output of the one before
RECURSIVE RulesInOrder(_, _)
RulesInOrder(rules, line) ==
  IF Len(rules) = 0 THEN line
  ELSE RulesInOrder(Tail(rules),
                    replace(line, RegExp(escapeRegExp(Head(rules).from)), Head(rules).to))

\* trim, AI rules, custom rules, list marker, heading, WeChat: each step on
\* the output of the step before, a disabled step the identity
Pipeline(S, para) ==
  LET s0 == trim(para)
      s1 == IF S.defaultAISource # "none"
            THEN RulesInOrder(S.aiPatterns[S.defaultAISource], s0) ELSE s0
      s2 == IF S.removeMarkdown THEN RulesInOrder(S.customReplacements, s1) ELSE s1
      s3 == IF S.unifyListMarker THEN replaceListMarker(s2) ELSE s2
      s4 == IF S.autoFormatHeadings THEN normalizeHeading(s3) ELSE s3
  IN  IF S.wechatReady THEN wechatFormat(s4) ELSE s4

\* C9: every processed paragraph is the composition, in this order, of trim,
\* the selected AI source's rules, the custom rules, list-marker unification,
\* heading normalization and WeChat spacing, each applied when enabled.
C9_PipelineOrder ==
  Cleaned =>
    /\ Len(last.paragraphs) = Len(InputParagraphs)
    /\ \A k \in 1..Len(InputParagraphs) :
         last.paragraphs[k] = Pipeline(settings, InputParagraphs[k])

\* a clean with an AI source and the custom rules both on, whose rules
\* produced a list marker that was then unified
C9_Witness ==
  /\ Cleaned
  /\ settings.defaultAISource # "none" /\ settings.unifyListMarker
  /\ last.replacements > 0
  /\ \E k \in 1..Len(InputParagraphs) :
       /\ Len(last.paragraphs[k]) > 0
       /\ last.paragraphs[k][1] = Bullet
       /\ replaceListMarker(trim(InputParagraphs[k])) = trim(InputParagraphs[k])

\* C10: the result before the WeChat final pass is the processed paragraphs
\* in order, the zero-length ones removed, joined by a double newline; and an
\* input line of whitespace only contributes nothing, whichever rules are on.
C10_BlankLinesContributeNothing ==
  Cleaned =>
    /\ last.joined = join(filterNonEmpty(last.paragraphs), <<"\n", "\n">>)
    /\ \A k \in 1..Len(InputParagraphs) :
         trim(InputParagraphs[k]) = <<>> => last.paragraphs[k] = <<>>

\* the paragraph starts with '-' or '*' followed by whitespace
StartsWithListMarker(t) ==
  Len(t) >= 2 /\ t[1] \in {"-", "*"} /\ t[2] \in WhiteSpace

\* the paragraph is the bullet, one space and a text with no further bullet
BulletParagraph(p) ==
  /\ Len(p) >= 2
  /\ p[1] = Bullet
  /\ p[2] = " "
  /\ \A k \in 2..Len(p) : p[k] # Bullet

\* C11: under the default settings, an input line whose trimmed form starts
\* with '-' or '*' and whitespace comes out as a paragraph in which that
\* marker and whitespace are the bullet and a space (no other bullet in it),
\* and a line that starts with '-' or '*' without whitespace after it has
\* no bullet.
C11_ListMarkerBecomesBullet ==
  (Cleaned /\ settings = DEFAULT_SETTINGS) =>
    \A i \in 1..Len(InputParagraphs) :
      LET t == trim(InputParagraphs[i])
      IN  /\ StartsWithListMarker(t) => BulletParagraph(last.paragraphs[i])
          /\ (Len(t) >= 1 /\ t[1] \in {"-", "*"} /\ ~StartsWithListMarker(t)) =>
                \A k \in 1..Len(last.paragraphs[i]) : last.paragraphs[i][k] # Bullet

\* the paragraph i of the last call as it reaches the WeChat block
BeforeWechat(i) ==
  headingBlock(settings,
    listBlock(settings,
      applyRuleBlocks(InputParagraphs[i], settings, compiledPatterns, 0))).cleaned

\* a Latin letter or digit next to an ideograph at k, k+1, in either order
Boundary(p, k) ==
  /\ k >= 1
  /\ k < Len(p)
  /\ \/ p[k] \in LatinOrDigit /\ p[k + 1] \in CJK
     \/ p[k] \in CJK /\ p[k + 1] \in LatinOrDigit

\* a whitespace character next to a full-width mark at k, k+1, in either order
SpaceAtMark(p, k) ==
  /\ k >= 1
  /\ k < Len(p)
  /\ \/ p[k] \in WhiteSpace /\ p[k + 1] \in ChinesePunctuation
     \/ p[k] \in ChinesePunctuation /\ p[k + 1] \in WhiteSpace

\* the indices of p that are not in a whitespace run touching a full-width mark
AwayFromMarks(p) ==
  { k \in 1..Len(p) :
      \/ p[k] \notin WhiteSpace
      \/ ~ \E m \in 1..Len(p) :
            /\ p[m] \in ChinesePunctuation
            /\ \A j \in (Min({k, m}) + 1)..(Max({k, m}) - 1) : p[j] \in WhiteSpace }

\* p without the whitespace runs that touch a full-width mark
WithoutSpaceAtMarks(p) ==
  LET K == AwayFromMarks(p)
  IN  [ n \in 1..Cardinality(K) |->
          p[CHOOSE k \in K : Cardinality({ j \in K : j <= k }) = n] ]

\* o is u with exactly one space put in at each boundary of u
IsSpacedAtBoundaries(o, u) ==
  LET B == { k \in 1..Len(u) : Boundary(u, k) }
      Shift(k) == Cardinality({ b \in B : b < k })
  IN  /\ Len(o) = Len(u) + Cardinality(B)
      /\ \A k \in 1..Len(u) : o[k + Shift(k)] = u[k]
      /\ \A b \in B : o[b + Shift(b) + 1] = " "

\* C12: with wechatReady on, no paragraph of the result has a Latin letter
\* or digit next to an ideograph, none has whitespace next to a full-width
\* mark, and each paragraph is the text that reached the WeChat step with
\* the whitespace around the marks dropped and exactly one space put in at
\* each Latin/ideograph boundary, in both directions.
C12_WechatSpacing ==
  (Cleaned /\ settings.wechatReady) =>
    \A i \in 1..Len(last.paragraphs) :
      /\ \A k \in 1..Len(last.paragraphs[i]) :
            ~Boundary(last.paragraphs[i], k) /\ ~SpaceAtMark(last.paragraphs[i], k)
      /\ IsSpacedAtBoundaries(last.paragraphs[i], WithoutSpaceAtMarks(BeforeWechat(i)))

\* C12 witness: a clean with wechatReady on of a paragraph that reached the
\* WeChat step with a boundary in each direction and came out longer.
C12_Witness ==
  /\ Cleaned
  /\ settings.wechatReady
  /\ \E i \in 1..Len(last.paragraphs) :
        /\ \E k \in 1..Len(BeforeWechat(i)) :
              BeforeWechat(i)[k] \in LatinOrDigit /\ Boundary(BeforeWechat(i), k)
        /\ \E k \in 1..Len(BeforeWechat(i)) :
              BeforeWechat(i)[k] \in CJK /\ Boundary(BeforeWechat(i), k)
        /\ Len(last.paragraphs[i]) > Len(BeforeWechat(i))

-----------------------------------------------------------------------------
(* One rule on one line, and the custom-pattern-apply path                 *)

\* one compiled rule applied to one line: the body of the forEach of the
\* custom replacement loop, on the pattern compilePatterns makes of the rule
applyRule(line, from, to) ==
  /\ phase = "pure"
  /\ LET pat == CompileRules(<<[from |-> from, to |-> to]>>)[1]
         r   == ApplyPattern([cleaned |-> line, replacements |-> 0], pat)
     IN  last' = [ NoCall EXCEPT
                     !.op = "applyRule", !.text = line, !.pattern = from,
                     !.replacement = to, !.result = r.cleaned,
                     !.replacements = r.replacements ]
  /\ UNCHANGED <<settings, compiledPatterns, phase, ui, pending, nOps>>

\* a call of validateAndApplyRegex with a fresh stats object
validateAndApply(text, pattern, replacement) ==
  /\ phase = "pure"
  /\ LET r == validateAndApplyRegex(text, pattern, replacement, 0)
     IN  last' = [ NoCall EXCEPT
                     !.op = "validateAndApplyRegex", !.text = text, !.pattern = pattern,
                     !.replacement = replacement, !.result = r.result,
                     !.replacements = r.replacements, !.notice = r.notice ]
  /\ UNCHANGED <<settings, compiledPatterns, phase, ui, pending, nOps>>

\* s.replace(/^#+\s*/, ''): the leading run of '#' and the whitespace after it
stripHeadingMark(s) ==
  IF Len(s) >= 1 /\ s[1] = "#"
  THEN SubSeq(s, 1 + RunLength(s, 1, {"#"})
                   + RunLength(s, 1 + RunLength(s, 1, {"#"}), WhiteSpace), Len(s))
  ELSE s

\* a bug to compare with: the mark put in front of whatever is there
formatHeadingStacked(t, level) ==
  Repeat("#", level) \o <<" ">> \o t

\* the text formatAsHeading writes for the selection or line t:
\* '#'.repeat(level) + ' ' + t.replace(/^#+\s*/, '')
formatHeading(t, level) ==
  Repeat("#", level) \o <<" ">> \o stripHeadingMark(t)

\* formatAsHeading(editor, level) on an editor with the given selection and
\* the given text on the cursor's line: the selection is replaced if there
\* is one, the line otherwise
formatAsHeading(selection, line, level) ==
  /\ phase = "pure"
  /\ last' = [ NoCall EXCEPT
                 !.op = "formatAsHeading",
                 !.text = IF selection # <<>> THEN selection ELSE line,
                 !.result = formatHeading(IF selection # <<>> THEN selection ELSE line, level),
                 !.level = level ]
  /\ UNCHANGED <<settings, compiledPatterns, phase, ui, pending, nOps>>

\* the levels of the three heading commands
HeadingLevels == {1, 2, 3}

\* selections and lines of the heading commands
MaxHeadingTextLen == 4

HeadingAlphabet == {"#", " ", "a"}

HeadingTexts == SeqsUpTo(HeadingAlphabet, MaxHeadingTextLen)

\* lines, rule texts and replacement texts of the one-rule calls
MaxLineLen == 3

MaxFromLen == 2

MaxToLen == 2

RuleAlphabet == {"a", ".", "$", "&"}

\* user patterns of the apply path: short ones over the characters the
\* safety check looks at, and ones at and just over its two limits
MaxUserPatternLen == 4

PatternAlphabet == {"(", ")", ".", "*", "+", "a"}

UserPatterns ==
  SeqsUpTo(PatternAlphabet, MaxUserPatternLen)
  \cup { Repeat("a", MaxPatternLength), Repeat("a", MaxPatternLength + 1),
         Repeat("(", MaxGroupCount), Repeat("(", MaxGroupCount + 1) }

ApplyTexts == { <<>>, Chars("a(.*)a"), Chars("(.+)(.+)"), Chars("aa") }

ApplyReplacements == { <<>>, Chars("b") }

InitFn ==
  /\ settings = DEFAULT_SETTINGS
  /\ compiledPatterns = compilePatterns(settings)
  /\ phase = "pure"
  /\ ui = NoUI
  /\ pending = <<>>
  /\ nOps = 0
  /\ last = NoCall

\* one call per behaviour: a function is applied to the drawn inputs
NextFn ==
  \/ /\ last.op = "none"
     /\ \E line \in SeqsUpTo(RuleAlphabet, MaxLineLen),
           from \in SeqsUpTo(RuleAlphabet, MaxFromLen),
           to \in SeqsUpTo(RuleAlphabet, MaxToLen) : applyRule(line, from, to)
  \/ /\ last.op = "none"
     /\ \E text \in ApplyTexts, pattern \in UserPatterns,
           replacement \in ApplyReplacements : validateAndApply(text, pattern, replacement)
  \/ /\ last.op = "none"
     /\ \E selection \in HeadingTexts \ {<<>>}, level \in HeadingLevels :
           formatAsHeading(selection, <<>>, level)
  \/ /\ last.op = "none"
     /\ \E line \in HeadingTexts, level \in HeadingLevels :
           formatAsHeading(<<>>, line, level)

SpecFn == InitFn /\ [][NextFn]_vars

\* the unsafe user patterns: an unbounded wildcard group, too long, too many '('
Unsafe(pattern) ==
  \/ includes(pattern, <<"(", ".", "*", ")">>)
  \/ includes(pattern, <<"(", ".", "+", ")">>)
  \/ Len(pattern) > 1000
  \/ Cardinality({ i \in 1..Len(pattern) : pattern[i] = "(" }) > 50

\* C3: applying, through validateAndApplyRegex, a user pattern that contains
\* "(.*)" or "(.+)", is longer than 1000 characters or has more than 50 '('
\* returns the text unchanged, leaves stats.replacements unchanged and
\* signals the invalid-pattern condition.
C3_UnsafePatternRejected ==
  (last.op = "validateAndApplyRegex" /\ Unsafe(last.pattern)) =>
    /\ last.result = last.text
    /\ last.replacements = 0
    /\ last.notice = "invalidPattern"

\* every non-overlapping, left-to-right occurrence of the string from in the
\* line replaced by the string to, both taken literally, from index i on
RECURSIVE ReplaceLiteral(_, _, _, _)
ReplaceLiteral(line, from, to, i) ==
  IF i > Len(line) THEN <<>>
  ELSE IF i + Len(from) - 1 <= Len(line) /\ SubSeq(line, i, i + Len(from) - 1) = from
       THEN to \o ReplaceLiteral(line, from, to, i + Len(from))
  ELSE <<line[i]>> \o ReplaceLiteral(line, from, to, i + 1)

\* C6: one rule {from, to} with non-empty from applied to a line gives the
\* line with every non-overlapping, left-to-right occurrence of the literal
\* from replaced by the literal to, whatever characters from and to contain.
C6_RuleIsLiteral ==
  (last.op = "applyRule" /\ Len(last.pattern) > 0) =>
    last.result = ReplaceLiteral(last.text, last.pattern, last.replacement, 1)

\* C13: formatting the result of formatHeading(t, a) at any level b gives
\* formatHeading(t, b), for every text t and all levels a, b.
C13_RelevelReplacesMark ==
  last.op = "formatAsHeading" =>
    \A b \in HeadingLevels :
      formatHeading(last.result, b) = formatHeading(last.text, b)

\* C13, amended: the same for every text t that does not begin with
\* whitespace.
C13_RelevelReplacesMarkUnindented ==
  ( /\ last.op = "formatAsHeading"
    /\ (Len(last.text) = 0 \/ last.text[1] \notin WhiteSpace) ) =>
    \A b \in HeadingLevels :
      formatHeading(last.result, b) = formatHeading(last.text, b)

\* C13 witness: a text that already carries a mark of another level, with
\* whitespace and text after it, has been formatted.
C13_Witness ==
  /\ last.op = "formatAsHeading"
  /\ Len(last.text) >= 3
  /\ last.text[1] = "#"
  /\ RunLength(last.text, 1, {"#"}) # last.level
  /\ last.text[Len(last.text)] = "a"
  /\ \E k \in 1..Len(last.text) : last.text[k] = " "

-----------------------------------------------------------------------------
(* The plugin: onload, the settings tab and its handlers, saves, clean     *)

RuleTypes == {"chatgpt", "claude", "custom"}

\* type === 'custom' ? settings.customReplacements : settings.aiPatterns[type]
RuleList(S, type) ==
  IF type = "custom" THEN S.customReplacements ELSE S.aiPatterns[type]

SetRuleList(S, type, rules) ==
  IF type = "custom" THEN [S EXCEPT !.customReplacements = rules]
  ELSE [S EXCEPT !.aiPatterns[type] = rules]

\* createSettingRow(container, pattern, index, type): the row keeps the
\* index it was created with; from and to are what its two text fields show
createSettingRow(pattern, index) == [index |-> index, from |-> pattern.from, to |-> pattern.to]

\* patterns.forEach((pattern, index) => this.createSettingRow(...))
RowsOf(rules) == [ i \in 1..Len(rules) |-> createSettingRow(rules[i], i) ]

\* display(): the tab rebuilt from the settings; the forEach over a missing
\* rule list throws and leaves the rest of the tab unbuilt
displayUI(S) ==
  LET hasChatgpt == "chatgpt" \in DOMAIN S.aiPatterns
      hasClaude  == hasChatgpt /\ "claude" \in DOMAIN S.aiPatterns
  IN  [ open |-> TRUE,
        rows |-> [ chatgpt |-> IF hasChatgpt THEN RowsOf(S.aiPatterns.chatgpt) ELSE <<>>,
                   claude  |-> IF hasClaude THEN RowsOf(S.aiPatterns.claude) ELSE <<>>,
                   custom  |-> IF hasClaude THEN RowsOf(S.customReplacements) ELSE <<>> ],
        addButton |-> [chatgpt |-> hasChatgpt, claude |-> hasClaude, custom |-> hasClaude] ]

\* display() empties containerEl: the containers that pending delete
\* handlers captured are no longer in the document
Detach(saves) == [ k \in 1..Len(saves) |-> [saves[k] EXCEPT !.detached = TRUE] ]

\* seq.splice(k, 1): nothing goes when there is no element at k
RemoveAt(seq, k) ==
  IF k \in 1..Len(seq) THEN SubSeq(seq, 1, k - 1) \o SubSeq(seq, k + 1, Len(seq)) ELSE seq

\* bounds of the session: handlers run, saves in flight, rows a user edits
MaxOps == 2

MaxPending == 2

MaxRow == 1

\* what loadData resolves with: nothing saved yet, a blob whose aiPatterns
\* lacks claude, a blob with an AI source that is not an option, a full blob
PersistedData ==
  { [ k \in {} |-> <<>> ],
    [ aiPatterns |-> [chatgpt |-> << Rule("Of course!", "") >>] ],
    [ defaultAISource |-> "gemini" ],
    [ defaultAISource |-> "chatgpt", customReplacements |-> << Rule("*", "") >> ] }

\* what the user types into a rule's fields, and the editor contents cleaned
FromValues == { <<>>, Chars("a") }

ToValues == { Chars("b") }

EditorTexts == { Chars(" "), Chars("Of course! *a*"), Chars("a\n- a") }

Handled(op, notice) == [NoCall EXCEPT !.op = op, !.notice = notice]

Init ==
  /\ settings = DEFAULT_SETTINGS
  /\ compiledPatterns = Undefined
  /\ phase = "constructed"
  /\ ui = NoUI
  /\ pending = <<>>
  /\ nOps = 0
  /\ last = NoCall

\* onload when loadData resolves: loadSettings, then compilePatterns inside
\* the try; the commands and the settings tab are registered either way
onload(data) ==
  /\ phase = "constructed"
  /\ settings' = ObjectAssign(DEFAULT_SETTINGS, data)
  /\ compiledPatterns' = IF compilePatternsThrows(settings') THEN compiledPatterns
                         ELSE compilePatterns(settings')
  /\ phase' = "loaded"
  /\ last' = Handled("onload", IF compilePatternsThrows(settings') THEN "initFailed" ELSE "none")
  /\ UNCHANGED <<ui, pending, nOps>>

\* onload when loadData rejects: the catch, nothing loaded, nothing compiled
onloadLoadFails ==
  /\ phase = "constructed"
  /\ phase' = "loaded"
  /\ last' = Handled("onload", "initFailed")
  /\ UNCHANGED <<settings, compiledPatterns, ui, pending, nOps>>

\* the user opens the settings tab
display ==
  /\ phase = "loaded"
  /\ ui' = displayUI(settings)
  /\ pending' = Detach(pending)
  /\ last' = Handled("display", "none")
  /\ UNCHANGED <<settings, compiledPatterns, phase, nOps>>

\* the first half of every handler: the settings already changed, saveSettings
\* called and suspended at await saveData
BeginSave(S, kind, type, op) ==
  /\ settings' = S
  /\ pending' = Append(pending, [kind |-> kind, type |-> type, detached |-> FALSE])
  /\ nOps' = nOps + 1
  /\ last' = Handled(op, "none")
  /\ UNCHANGED <<compiledPatterns, phase>>

CanHandle == ui.open /\ nOps < MaxOps /\ Len(pending) < MaxPending

\* onChange of the removeMarkdown, unifyListMarker, autoFormatHeadings and
\* wechatReady toggles
toggle(field) ==
  /\ CanHandle
  /\ BeginSave([settings EXCEPT ![field] = ~@], "plain", "none", "toggle")
  /\ UNCHANGED ui

\* onChange of the AI source dropdown
setDefaultAISource(value) ==
  /\ CanHandle
  /\ value # settings.defaultAISource
  /\ BeginSave([settings EXCEPT !.defaultAISource = value], "plain", "none", "setDefaultAISource")
  /\ UNCHANGED ui

\* onChange of the language dropdown; display() follows the save
setLanguage(value) ==
  /\ CanHandle
  /\ value # settings.language
  /\ BeginSave([settings EXCEPT !.language = value], "language", "none", "setLanguage")
  /\ UNCHANGED ui

\* onChange of the from (field = "from") or to (field = "to") text of the
\* row at position r of a list: it writes rules[index].field, index being
\* the one the row was created with; a rule that is no longer there makes
\* the assignment throw into the catch
editRule(type, r, field, value) ==
  /\ CanHandle
  /\ r \in 1..Len(ui.rows[type])
  /\ value # ui.rows[type][r][field]
  /\ ui' = [ui EXCEPT !.rows[type][r][field] = value]
  /\ LET index == ui.rows[type][r].index
         rules == RuleList(settings, type)
     IN  IF index <= Len(rules)
         THEN BeginSave(SetRuleList(settings, type, [rules EXCEPT ![index][field] = value]),
                        "plain", type, "editRule")
         ELSE /\ nOps' = nOps + 1
              /\ last' = Handled("editRule", "errorSaveSettings")
              /\ UNCHANGED <<settings, compiledPatterns, phase, pending>>

\* onClick of the delete button of the row at position r: splice(index, 1)
\* at once; the row goes and the list is redrawn only after the save
deleteRule(type, r) ==
  /\ CanHandle
  /\ r \in 1..Len(ui.rows[type])
  /\ LET index == ui.rows[type][r].index
         rules == RuleList(settings, type)
     IN  BeginSave(SetRuleList(settings, type, RemoveAt(rules, index)),
                   "delete", type, "deleteRule")
  /\ UNCHANGED ui

\* onClick of an Add rule button: push({from: '', to: ''}) at once; the row
\* is created only after the save
addRule(type) ==
  /\ CanHandle
  /\ ui.addButton[type]
  /\ BeginSave(SetRuleList(settings, type,
                           Append(RuleList(settings, type), [from |-> <<>>, to |-> <<>>])),
               "add", type, "addRule")
  /\ UNCHANGED ui

\* saveData of the k-th save in flight resolves: compilePatterns, then the
\* rest of the handler (a throwing compilePatterns goes to the handler's catch)
saveResolves(k) ==
  /\ k \in 1..Len(pending)
  /\ pending' = (IF pending[k].kind = "language" /\ ~compilePatternsThrows(settings)
                 THEN Detach(RemoveAt(pending, k)) ELSE RemoveAt(pending, k))
  /\ IF compilePatternsThrows(settings)
     THEN /\ last' = Handled("saveSettings", "errorSaveSettings")
          /\ UNCHANGED <<compiledPatterns, ui>>
     ELSE /\ compiledPatterns' = compilePatterns(settings)
          /\ last' = Handled("saveSettings", "none")
          /\ LET s    == pending[k]
                 list == RuleList(settings, s.type)
             IN  ui' = CASE s.kind = "delete" /\ ~s.detached ->
                              [ui EXCEPT !.rows[s.type] = RowsOf(list)]
                         [] s.kind = "add" ->
                              [ui EXCEPT !.rows[s.type] =
                                 Append(@, createSettingRow([from |-> <<>>, to |-> <<>>],
                                                            Len(list)))]
                         [] s.kind = "language" -> displayUI(settings)
                         [] OTHER -> ui
  /\ UNCHANGED <<settings, phase, nOps>>

\* saveData of the k-th save in flight rejects: the handler's catch shows a
\* Notice; the settings stay changed, nothing is compiled, no row is touched
saveRejects(k) ==
  /\ k \in 1..Len(pending)
  /\ pending' = RemoveAt(pending, k)
  /\ last' = Handled("saveSettings", "errorSaveSettings")
  /\ UNCHANGED <<settings, compiledPatterns, phase, ui, nOps>>

Next ==
  \/ \E data \in PersistedData : onload(data)
  \/ onloadLoadFails
  \/ display
  \/ \E field \in {"removeMarkdown", "unifyListMarker", "autoFormatHeadings", "wechatReady"} :
       toggle(field)
  \/ \E value \in {"none", "chatgpt", "claude"} : setDefaultAISource(value)
  \/ \E value \in {"en", "zh"} : setLanguage(value)
  \/ \E type \in RuleTypes, r \in 1..MaxRow, value \in FromValues :
       editRule(type, r, "from", value)
  \/ \E type \in RuleTypes, r \in 1..MaxRow, value \in ToValues :
       editRule(type, r, "to", value)
  \/ \E type \in RuleTypes, r \in 1..MaxRow : deleteRule(type, r)
  \/ \E type \in RuleTypes : addRule(type)
  \/ \E k \in 1..MaxPending : saveResolves(k)
  \/ \E k \in 1..MaxPending : saveRejects(k)
  \/ \E text \in EditorTexts : cleanCommand(text)

Spec == Init /\ [][Next]_vars

\* C1: whenever cleanFormat runs, the compiled chatgpt, claude and custom
\* patterns are the compilation of the rule sequences of the current
\* settings: a clean never runs on patterns compiled from an older rule
\* sequence (last.stale records, at the call, that the patterns had been
\* compiled and were not the compilation of the settings' rules).
C1_CleanSeesCurrentPatterns == last.op = "cleanFormat" => ~last.stale

\* C2: in every reachable plugin state cleanFormat returns a result and
\* stats for every text; it never throws.
C2_CleanNeverThrows == last.op = "cleanFormat" => ~last.threw

\* the compiled patterns without those of rules whose from is empty
WithoutEmptyFrom(CP) ==
  LET NonEmpty(pat) == Len(pat.regex.source) > 0
  IN  [ type \in DOMAIN CP |-> SelectSeq(CP[type], NonEmpty) ]

\* C7: a rule whose from is empty has no effect in clean: the result and
\* stats.replacements are those of a clean without that rule.
C7_EmptyFromHasNoEffect ==
  Cleaned =>
    LET r == cleanFormat(last.text, settings, WithoutEmptyFrom(compiledPatterns))
    IN  last.result = r.result /\ last.replacements = r.replacements

\* the rule a row shows in its two text fields
Shown(row) == [from |-> row.from, to |-> row.to]

\* the step took the rule the row shows, and nothing else, out of the list
\* of the given type
RemovedShown(type, row) ==
  \E k \in 1..Len(RuleList(settings, type)) :
    /\ RuleList(settings, type)[k] = Shown(row)
    /\ settings' = SetRuleList(settings, type, RemoveAt(RuleList(settings, type), k))

\* the step set the field of the rule the row shows, and nothing else
EditedShown(type, row, field, value) ==
  \E k \in 1..Len(RuleList(settings, type)) :
    /\ RuleList(settings, type)[k] = Shown(row)
    /\ settings' = SetRuleList(settings, type,
                               [RuleList(settings, type) EXCEPT ![k][field] = value])

\* C14: under any interleaving of delete clicks, field edits and pending or
\* failed saves, a click on the Delete button of a row removes exactly the
\* rule that row shows and an edit of a row changes exactly that rule; the
\* other rules are neither removed, nor modified, nor reordered.
C14_RowActsOnItsRule ==
  [][ /\ \A type \in RuleTypes, r \in 1..MaxRow :
           deleteRule(type, r) => RemovedShown(type, ui.rows[type][r])
      /\ \A type \in RuleTypes, r \in 1..MaxRow, value \in FromValues :
           editRule(type, r, "from", value) =>
             EditedShown(type, ui.rows[type][r], "from", value)
      /\ \A type \in RuleTypes, r \in 1..MaxRow, value \in ToValues :
           editRule(type, r, "to", value) =>
             EditedShown(type, ui.rows[type][r], "to", value) ]_vars

====
